---- MODULE Spec2Model ----
\* Spotify serverless ETL pipeline: the HTTP-triggered Extractor
\* (src/spotifyextract.py) and the blob-triggered Transformer
\* (src/spotifytransform.py), both acting on one blob container.
\*
\* A blob path is the sequence of its '/'-separated segments; a timestamped
\* file name is the tuple <<stem, timestamp, extension>>.  The container is a
\* partial function from paths to blob contents: a path outside its DOMAIN is
\* a blob that does not exist.
EXTENDS Integers, Sequences, FiniteSets, TLC

VARIABLES
    container,      \* the blob container "raw": path -> content
    now,            \* the wall clock at its latest reading, in ticks of 1/TicksPerSecond second
    pc,             \* Transformer invocation -> position in TransformSpotifyData
    myblob,         \* Transformer invocation -> the triggering blob (name, content)
    frames,         \* Transformer invocation -> song_df, album_df, artist_df
    timestamp,      \* Transformer invocation -> the timestamp of its output keys
    file_content,   \* Transformer invocation -> bytes downloaded for the relocation
    hist,           \* Transformer invocation -> history of its storage operations
    env,            \* CLIENT_ID, SECRET_ID, STORAGE_CONNECTION_STRING
    epc,            \* Extractor invocation -> position in spotify_http_trigger
    edata,          \* Extractor invocation -> playlist data fetched
    eblob_path,     \* Extractor invocation -> blob path computed for the upload
    response,       \* Extractor invocation -> the HTTP response returned
    ehist           \* Extractor invocation -> history of its stages and calls

tvars == <<pc, myblob, frames, timestamp, file_content, hist>>
evars == <<env, epc, edata, eblob_path, response, ehist>>
vars == <<container, now, pc, myblob, frames, timestamp, file_content, hist,
          env, epc, edata, eblob_path, response, ehist>>

\* ---------------------------------------------------------------- bounds
NumInv == 2            \* Transformer invocations (one per source object)
NumReq == 2            \* Extractor invocations (HTTP requests)
MaxItems == 3          \* items of a snapshot in the row-set specification
MaxClock == 2          \* last tick of the clock
TicksPerSecond == 2    \* clock resolution below the second

Invocations == 1..NumInv
Requests == 1..NumReq

\* ---------------------------------------------------------------- snapshots
\* A track item as the playlist API returns it.  Of the columns that are
\* copied verbatim (name, url, popularity, duration_ms, total_tracks) the
\* name stands for all: it is the payload that tells two rows with the same
\* id apart.
FullDate == "2023-05-11"
YearOnly == "1987"
NotADate == "not-a-date"
AddedAt == "2023-05-12T10:00:00Z"

Album(id, name, date) == [id |-> id, name |-> name, release_date |-> date]
Artist(id, name) == [id |-> id, name |-> name]
Track(album, artists) == [id |-> "s1", name |-> "song", album |-> album, artists |-> artists]
TrackNoAlbum(artists) == [id |-> "s1", name |-> "song", artists |-> artists]
Item(track) == [added_at |-> AddedAt, track |-> track]

\* Albums and first-artist lists of the well-formed snapshots.
Albums == {Album("al1", "A", FullDate), Album("al1", "B", FullDate), Album("al2", "A", FullDate)}
ArtistLists ==
    {<<Artist("ar1", "A")>>, <<Artist("ar1", "B")>>, <<Artist("ar2", "B"), Artist("ar1", "A")>>}
WellFormedItems == {Item(Track(al, ars)) : al \in Albums, ars \in ArtistLists}

SeqsUpTo(S, n) == UNION {[1..k -> S] : k \in 0..n}
WellFormedSnapshots == {[items |-> its] : its \in SeqsUpTo(WellFormedItems, MaxItems)}

\* The snapshots that land in the lifecycle specifications: a well-formed one
\* with a repeated album and a repeated artist; one whose second item lacks
\* track.album; one whose release date is no date; one whose track has no
\* artist; one whose second item repeats the album of the first with a release
\* date that is no date; and a second well-formed one, mixing a year-only and
\* a full release date.
SnapOk ==
    [items |-> <<Item(Track(Album("al1", "A", FullDate), <<Artist("ar1", "A")>>)),
                 Item(Track(Album("al1", "B", FullDate), <<Artist("ar2", "A")>>)),
                 Item(Track(Album("al2", "A", FullDate), <<Artist("ar2", "B"), Artist("ar1", "A")>>))>>]
SnapNoAlbum ==
    [items |-> <<Item(Track(Album("al1", "A", FullDate), <<Artist("ar1", "A")>>)),
                 Item(TrackNoAlbum(<<Artist("ar2", "A")>>))>>]
SnapBadDate ==
    [items |-> <<Item(Track(Album("al2", "B", NotADate), <<Artist("ar1", "B")>>))>>]
SnapMixedDates ==
    [items |-> <<Item(Track(Album("al1", "A", FullDate), <<Artist("ar1", "A")>>)),
                 Item(Track(Album("al2", "A", YearOnly), <<Artist("ar1", "A")>>))>>]
SnapNoArtist ==
    [items |-> <<Item(Track(Album("al2", "A", FullDate), <<>>))>>]
SnapRepeatedAlbumBadDate ==
    [items |-> <<Item(Track(Album("al1", "A", FullDate), <<Artist("ar1", "A")>>)),
                 Item(Track(Album("al1", "B", NotADate), <<Artist("ar2", "A")>>))>>]
TriggerSnapshots == {SnapOk, SnapNoAlbum, SnapBadDate, SnapNoArtist}
DamagedSnapshots == {SnapNoAlbum, SnapBadDate, SnapNoArtist, SnapRepeatedAlbumBadDate}
ConcurrentSnapshots == {SnapOk, SnapMixedDates}

\* json.dumps / json.loads: the document is the serialized form of the data.
JsonDumps(data) == [json |-> data]
JsonLoads(doc) == doc.json

\* ---------------------------------------------------------------- projection
\* A subscript that raises: KeyError on a missing key, IndexError on artists[0].
ItemRaises(song) ==
    \/ "track" \notin DOMAIN song
    \/ "added_at" \notin DOMAIN song
    \/ "album" \notin DOMAIN song.track
    \/ "artists" \notin DOMAIN song.track
    \/ Len(song.track.artists) = 0

ProjectionRaises(data) ==
    \/ "items" \notin DOMAIN data
    \/ \E k \in 1..Len(data.items) : ItemRaises(data.items[k])

make_album(data) ==
    [k \in 1..Len(data.items) |->
        [album_id |-> data.items[k].track.album.id,
         name |-> data.items[k].track.album.name,
         release_date |-> data.items[k].track.album.release_date]]

make_artist(data) ==
    [k \in 1..Len(data.items) |->
        [artist_id |-> data.items[k].track.artists[1].id,
         name |-> data.items[k].track.artists[1].name]]

make_song(data) ==
    [k \in 1..Len(data.items) |->
        [song_id |-> data.items[k].track.id,
         name |-> data.items[k].track.name,
         added_date |-> data.items[k].added_at,
         album_id |-> data.items[k].track.album.id,
         artist_id |-> data.items[k].track.artists[1].id]]

\* drop_duplicates with keep='last'.
drop_duplicates_last(rows, key) ==
    LET F[k \in 0..Len(rows)] ==
            IF k = 0 THEN <<>>
            ELSE IF \E j \in (Len(rows) - k + 2)..Len(rows) :
                        rows[j][key] = rows[Len(rows) - k + 1][key]
                 THEN F[k - 1]
                 ELSE <<rows[Len(rows) - k + 1]>> \o F[k - 1]
    IN  F[Len(rows)]

\* DataFrame.drop_duplicates(subset=key, keep='first', ignore_index=True)
drop_duplicates(rows, key) ==
    LET F[k \in 0..Len(rows)] ==
            IF k = 0 THEN <<>>
            ELSE IF \E j \in 1..(k - 1) : rows[j][key] = rows[k][key]
                 THEN F[k - 1]
                 ELSE Append(F[k - 1], rows[k])
    IN  F[Len(rows)]

\* The subset= argument of the two drop_duplicates calls (lines 95, 98);
\* AlbumSubsetName is the album frame deduplicated by name instead.
ArtistSubset == "artist_id"
AlbumSubsetName == "name"
AlbumSubset == "album_id"

\* pd.to_datetime on one value: the parsed timestamp <<year, month, day>>;
\* NaT is what a value that is no date becomes when errors are coerced.
Parseable(s) == s \in {FullDate, YearOnly, AddedAt}
NaT == <<0, 0, 0>>
ParseDate(s) ==
    CASE s = FullDate -> <<2023, 5, 11>>
      [] s = YearOnly -> <<1987, 1, 1>>
      [] s = AddedAt  -> <<2023, 5, 12>>
      [] OTHER        -> NaT

\* pd.to_datetime on a column: the outcomes it can have.
\* A value that is no date always raises.  A column mixing a year-only and a
\* full date parses element by element in pandas 1.x and raises in pandas 2.x
\* (the format is inferred from the first value); src/ pins no version.
MixedPrecision(col) ==
    \E j, k \in 1..Len(col) : col[j] = YearOnly /\ col[k] \in {FullDate, AddedAt}
\* pd.to_datetime with errors='coerce': it never raises.
ToDatetimeCoerce(col) == {"ok"}
ToDatetimeOutcomes(col) ==
    IF \E k \in 1..Len(col) : ~Parseable(col[k]) THEN {"raise"}
    ELSE IF MixedPrecision(col) THEN {"ok", "raise"}
    ELSE {"ok"}

Column(rows, c) == [k \in 1..Len(rows) |-> rows[k][c]]
WithParsed(rows, c) == [k \in 1..Len(rows) |-> [rows[k] EXCEPT ![c] = ParseDate(rows[k][c])]]

\* Lines 91-99: the three dataframes, before the date columns are parsed.
SongFrame(data) == make_song(data)
ArtistFrame(data) == drop_duplicates(make_artist(data), ArtistSubset)
AlbumFrame(data) == drop_duplicates(make_album(data), AlbumSubset)

\* make_csv_buffer: header line, then one line per row, no index column.
SongColumns == <<"song_id", "name", "added_date", "album_id", "artist_id">>
AlbumColumns == <<"album_id", "name", "release_date">>
ArtistColumns == <<"artist_id", "name">>
make_csv_buffer(df, columns) ==
    <<columns>> \o [k \in 1..Len(df) |-> [c \in 1..Len(columns) |-> df[k][columns[c]]]]

\* ---------------------------------------------------------------- paths
Last(s) == s[Len(s)]

\* datetime.now().strftime("%Y%m%d%H%M%S"): the clock cut to the second.
Strftime(t) == t \div TicksPerSecond

\* datetime.now(): any time from the latest reading on (the clock is monotonic;
\* an arbitrary time passes between two readings).
ClockReadings == now..MaxClock

ContainerName == "raw"
RawFileName(ts) == <<"spotify_raw", ts, "json">>
BlobPath(file_name) == <<"to_be_processed", file_name>>
\* The name the blob trigger hands over: container/to_be_processed/{name}.
TriggerName(file_name) == <<ContainerName, "to_be_processed", file_name>>

song_key(ts) == <<"transformed_data", "song_data", <<"song_transformed", ts, "csv">>>>
album_key(ts) == <<"transformed_data", "album_data", <<"album_transformed", ts, "csv">>>>
artist_key(ts) == <<"transformed_data", "artist_data", <<"artist_transformed", ts, "csv">>>>

file_name(i) == Last(myblob[i].name)
source_path(i) == <<"to_be_processed", file_name(i)>>
target_path(i) == <<"processed", file_name(i)>>

Exists(path) == path \in DOMAIN container
Put(path, content) ==
    [p \in DOMAIN container \cup {path} |-> IF p = path THEN content ELSE container[p]]
Remove(path) == [p \in DOMAIN container \ {path} |-> container[p]]

\* ---------------------------------------------------------------- Transformer
NoContent == JsonDumps([items |-> <<>>])
NoFrames == [song_df |-> <<>>, album_df |-> <<>>, artist_df |-> <<>>]
NoHist == [wrote |-> {}, deleted |-> {}, raised |-> "none"]

UploadSteps == {"upload_song", "upload_album", "upload_artist"}
MoveSteps == {"download", "copy", "delete"}

\* The storage operations with the delete ahead of the copy.
NextStepDeleteFirst(step) ==
    CASE step = "upload_song"   -> "upload_album"
      [] step = "upload_album"  -> "upload_artist"
      [] step = "upload_artist" -> "download"
      [] step = "download"      -> "delete"
      [] step = "delete"        -> "copy"
      [] step = "copy"          -> "succeeded"

\* The order of the storage operations of one invocation (lines 110-155).
NextStep(step) ==
    CASE step = "upload_song"   -> "upload_album"
      [] step = "upload_album"  -> "upload_artist"
      [] step = "upload_artist" -> "download"
      [] step = "download"      -> "copy"
      [] step = "copy"          -> "delete"
      [] step = "delete"        -> "succeeded"

\* An outer handler that logs and does not re-raise.
OuterHandlerSwallows == "succeeded"
\* Lines 161-163: the outer handler logs and re-raises to the trigger.
OuterHandlerOutcome == "failed"

\* An upload handler that logs and does not re-raise.
UploadErrorSwallowed(step) == NextStep(step)
\* Lines 133-135: the upload handler logs and re-raises (to the outer handler).
UploadErrorOutcome(step) == OuterHandlerOutcome

\* A relocation handler that re-raises.
MoveErrorReraised == OuterHandlerOutcome
\* Lines 156-160: the relocation handler logs and falls through to the end.
MoveErrorOutcome == "succeeded"

\* Distinct source objects have distinct file names.
SourceFileName(i) == RawFileName(i)

CsvKey(step, ts) ==
    CASE step = "upload_song"   -> song_key(ts)
      [] step = "upload_album"  -> album_key(ts)
      [] step = "upload_artist" -> artist_key(ts)
CsvKeys(ts) == {song_key(ts), album_key(ts), artist_key(ts)}
CsvBody(step, i) ==
    CASE step = "upload_song"   -> make_csv_buffer(frames[i].song_df, SongColumns)
      [] step = "upload_album"  -> make_csv_buffer(frames[i].album_df, AlbumColumns)
      [] step = "upload_artist" -> make_csv_buffer(frames[i].artist_df, ArtistColumns)

\* Lines 79-99 on the triggering blob: what the transformation can do.
TransformOutcomes(data) ==
    IF ProjectionRaises(data) THEN {"raise"}
    ELSE LET added == ToDatetimeOutcomes(Column(SongFrame(data), "added_date"))
             released == ToDatetimeOutcomes(Column(AlbumFrame(data), "release_date"))
         IN  (IF "raise" \in added \cup released THEN {"raise"} ELSE {})
             \cup (IF "ok" \in added /\ "ok" \in released THEN {"ok"} ELSE {})

\* The blob trigger: source object i, the i-th to land, appears under
\* to_be_processed/ and invocation i starts on it (line 67).
Land(i, data) ==
    /\ pc[i] = "idle"
    /\ \A j \in 1..(i - 1) : pc[j] # "idle"
    /\ container' = Put(BlobPath(SourceFileName(i)), JsonDumps(data))
    /\ myblob' = [myblob EXCEPT ![i] = [name |-> TriggerName(SourceFileName(i)),
                                         content |-> JsonDumps(data)]]
    /\ pc' = [pc EXCEPT ![i] = "transform"]
    /\ UNCHANGED <<evars, now, frames, timestamp, file_content, hist>>

\* Lines 79-105: parse, project, deduplicate, parse the dates, and stamp the
\* output keys with the time of the invocation.
TransformOk(i) ==
    LET raw_data == JsonLoads(myblob[i].content) IN
    /\ pc[i] = "transform"
    /\ "ok" \in TransformOutcomes(raw_data)
    /\ frames' = [frames EXCEPT ![i] =
                    [song_df |-> WithParsed(SongFrame(raw_data), "added_date"),
                     artist_df |-> ArtistFrame(raw_data),
                     album_df |-> WithParsed(AlbumFrame(raw_data), "release_date")]]
    /\ \E t \in ClockReadings :
          /\ now' = t
          /\ timestamp' = [timestamp EXCEPT ![i] = Strftime(t)]
    /\ pc' = [pc EXCEPT ![i] = "upload_song"]
    /\ UNCHANGED <<evars, container, myblob, file_content, hist>>

\* Lines 79-99 raise; lines 161-163 log and re-raise.
TransformRaises(i) ==
    /\ pc[i] = "transform"
    /\ "raise" \in TransformOutcomes(JsonLoads(myblob[i].content))
    /\ hist' = [hist EXCEPT ![i].raised = "transform"]
    /\ pc' = [pc EXCEPT ![i] = OuterHandlerOutcome]
    /\ UNCHANGED <<evars, container, now, myblob, frames, timestamp, file_content>>

\* Lines 111-130: one upload_blob(..., overwrite=True) that succeeds.
UploadOk(i) ==
    /\ pc[i] \in UploadSteps
    /\ container' = Put(CsvKey(pc[i], timestamp[i]), CsvBody(pc[i], i))
    /\ hist' = [hist EXCEPT ![i].wrote = @ \cup {CsvKey(pc[i], timestamp[i])}]
    /\ pc' = [pc EXCEPT ![i] = NextStep(pc[i])]
    /\ UNCHANGED <<evars, now, myblob, frames, timestamp, file_content>>

UploadRaises(i) ==
    /\ pc[i] \in UploadSteps
    /\ hist' = [hist EXCEPT ![i].raised = pc[i]]
    /\ pc' = [pc EXCEPT ![i] = UploadErrorOutcome(pc[i])]
    /\ UNCHANGED <<evars, container, now, myblob, frames, timestamp, file_content>>

\* Lines 145-146.
DownloadOk(i) ==
    /\ pc[i] = "download"
    /\ Exists(source_path(i))
    /\ file_content' = [file_content EXCEPT ![i] = container[source_path(i)]]
    /\ pc' = [pc EXCEPT ![i] = NextStep("download")]
    /\ UNCHANGED <<evars, container, now, myblob, frames, timestamp, hist>>

\* Lines 149-150.
CopyOk(i) ==
    /\ pc[i] = "copy"
    /\ container' = Put(target_path(i), file_content[i])
    /\ hist' = [hist EXCEPT ![i].wrote = @ \cup {target_path(i)}]
    /\ pc' = [pc EXCEPT ![i] = NextStep("copy")]
    /\ UNCHANGED <<evars, now, myblob, frames, timestamp, file_content>>

\* Line 153.
DeleteOk(i) ==
    /\ pc[i] = "delete"
    /\ Exists(source_path(i))
    /\ container' = Remove(source_path(i))
    /\ hist' = [hist EXCEPT ![i].deleted = @ \cup {source_path(i)}]
    /\ pc' = [pc EXCEPT ![i] = NextStep("delete")]
    /\ UNCHANGED <<evars, now, myblob, frames, timestamp, file_content>>

\* Lines 156-158: any relocation step raises.
MoveRaises(i) ==
    /\ pc[i] \in MoveSteps
    /\ hist' = [hist EXCEPT ![i].raised = pc[i]]
    /\ pc' = [pc EXCEPT ![i] = MoveErrorOutcome]
    /\ UNCHANGED <<evars, container, now, myblob, frames, timestamp, file_content>>

InitTransformer ==
    /\ container = <<>>
    /\ now = 0
    /\ pc = [i \in Invocations |-> "idle"]
    /\ myblob = [i \in Invocations |-> [name |-> <<>>, content |-> NoContent]]
    /\ frames = [i \in Invocations |-> NoFrames]
    /\ timestamp = [i \in Invocations |-> 0]
    /\ file_content = [i \in Invocations |-> NoContent]
    /\ hist = [i \in Invocations |-> NoHist]

\* ---------------------------------------------------------------- Extractor
\* os.environ.get gives None for an unset variable; None and the empty
\* string are both false under `not`.
EnvValues == {"None", "", "set"}
Falsy(x) == x \in {"None", ""}
EnvSet == [CLIENT_ID |-> "set", SECRET_ID |-> "set", STORAGE_CONNECTION_STRING |-> "set"]
Environments == [CLIENT_ID : EnvValues, SECRET_ID : EnvValues, STORAGE_CONNECTION_STRING : EnvValues]

HttpOk == 200
HttpError == 500

CredentialsBody == "Please configure Spotify API credentials in application settings."
StorageBody == "Please configure Azure Storage settings in application settings."
ConnectBody == "Error connecting to Spotify API"
RetrieveBody == "Error retrieving playlist data"
UploadBody == "Error uploading data to storage"
SuccessBody == "Data successfully uploaded"

NoResponse == [status_code |-> 0, body |-> "none"]
NoEHist == [stages |-> <<>>, api_calls |-> 0, storage_calls |-> 0, wrote |-> {}]

\* What the playlist API can return.
PlaylistData == {SnapOk, SnapNoAlbum}

\* Lines 45-57: the configuration checks, in order.
\* The checks without the one on the storage connection string.
ConfigCheckCredentialsOnly(e) ==
    IF Falsy(e.CLIENT_ID) \/ Falsy(e.SECRET_ID) THEN "credentials" ELSE "ok"
ConfigCheck(e) ==
    IF Falsy(e.CLIENT_ID) \/ Falsy(e.SECRET_ID) THEN "credentials"
    ELSE IF Falsy(e.STORAGE_CONNECTION_STRING) THEN "storage"
    ELSE "ok"

\* A fetch handler without its return.
FetchErrorFallsThrough == "prepare"
\* Lines 76-81: a failed fetch returns the 500 response, ending the invocation.
FetchErrorTarget == "returned"

Entered(e, stage) == [ehist EXCEPT ![e].stages = Append(@, stage)]

\* Lines 45-57.
CheckConfig(e) ==
    /\ epc[e] = "config"
    /\ ehist' = Entered(e, "config")
    /\ \/ /\ ConfigCheck(env) = "credentials"
          /\ response' = [response EXCEPT ![e] = [status_code |-> HttpError, body |-> CredentialsBody]]
          /\ epc' = [epc EXCEPT ![e] = "returned"]
       \/ /\ ConfigCheck(env) = "storage"
          /\ response' = [response EXCEPT ![e] = [status_code |-> HttpError, body |-> StorageBody]]
          /\ epc' = [epc EXCEPT ![e] = "returned"]
       \/ /\ ConfigCheck(env) = "ok"
          /\ epc' = [epc EXCEPT ![e] = "client"]
          /\ UNCHANGED response
    /\ UNCHANGED <<tvars, container, now, env, edata, eblob_path>>

\* Lines 60-63: the API client is constructed; no request is sent yet.
ClientOk(e) ==
    /\ epc[e] = "client"
    /\ ehist' = Entered(e, "client")
    /\ epc' = [epc EXCEPT ![e] = "fetch"]
    /\ UNCHANGED <<tvars, container, now, env, edata, eblob_path, response>>

\* Lines 64-69.
ClientRaises(e) ==
    /\ epc[e] = "client"
    /\ ehist' = Entered(e, "client")
    /\ response' = [response EXCEPT ![e] = [status_code |-> HttpError, body |-> ConnectBody]]
    /\ epc' = [epc EXCEPT ![e] = "returned"]
    /\ UNCHANGED <<tvars, container, now, env, edata, eblob_path>>

\* Lines 72-75: sp.playlist_tracks answers.
FetchOk(e, data) ==
    /\ epc[e] = "fetch"
    /\ ehist' = [ehist EXCEPT ![e].stages = Append(@, "fetch"), ![e].api_calls = @ + 1]
    /\ edata' = [edata EXCEPT ![e] = data]
    /\ epc' = [epc EXCEPT ![e] = "prepare"]
    /\ UNCHANGED <<tvars, container, now, env, eblob_path, response>>

\* Lines 76-81.
FetchRaises(e) ==
    /\ epc[e] = "fetch"
    /\ ehist' = [ehist EXCEPT ![e].stages = Append(@, "fetch"), ![e].api_calls = @ + 1]
    /\ response' = [response EXCEPT ![e] = [status_code |-> HttpError, body |-> RetrieveBody]]
    /\ epc' = [epc EXCEPT ![e] = FetchErrorTarget]
    /\ UNCHANGED <<tvars, container, now, env, edata, eblob_path>>

\* Lines 86-97: the storage clients and the timestamped blob path.
PreparePath(e) ==
    /\ epc[e] = "prepare"
    /\ \E t \in ClockReadings :
          /\ now' = t
          /\ eblob_path' = [eblob_path EXCEPT ![e] = BlobPath(RawFileName(Strftime(t)))]
    /\ epc' = [epc EXCEPT ![e] = "upload"]
    /\ UNCHANGED <<tvars, container, env, edata, response, ehist>>

\* Lines 100-103: upload_blob(json_data, overwrite=True) succeeds.
UploadBlobOk(e) ==
    /\ epc[e] = "upload"
    /\ container' = Put(eblob_path[e], JsonDumps(edata[e]))
    /\ ehist' = [ehist EXCEPT ![e].stages = Append(@, "upload"),
                              ![e].storage_calls = @ + 1,
                              ![e].wrote = @ \cup {eblob_path[e]}]
    /\ epc' = [epc EXCEPT ![e] = "respond"]
    /\ UNCHANGED <<tvars, now, env, edata, eblob_path, response>>

\* Lines 104-109.
UploadBlobRaises(e) ==
    /\ epc[e] = "upload"
    /\ ehist' = [ehist EXCEPT ![e].stages = Append(@, "upload"), ![e].storage_calls = @ + 1]
    /\ response' = [response EXCEPT ![e] = [status_code |-> HttpError, body |-> UploadBody]]
    /\ epc' = [epc EXCEPT ![e] = "returned"]
    /\ UNCHANGED <<tvars, container, now, env, edata, eblob_path>>

\* Lines 112-116.
Respond(e) ==
    /\ epc[e] = "respond"
    /\ response' = [response EXCEPT ![e] = [status_code |-> HttpOk, body |-> SuccessBody]]
    /\ epc' = [epc EXCEPT ![e] = "returned"]
    /\ UNCHANGED <<tvars, container, now, env, edata, eblob_path, ehist>>

\* The outer handler (lines 117-124) catches what is raised outside the three
\* inner try blocks: the configuration checks and the construction of the
\* success response, neither of which raises, so no action enters it.

InitExtractor(start) ==
    /\ epc = [e \in Requests |-> start]
    /\ edata = [e \in Requests |-> [items |-> <<>>]]
    /\ eblob_path = [e \in Requests |-> <<>>]
    /\ response = [e \in Requests |-> NoResponse]
    /\ ehist = [e \in Requests |-> NoEHist]

\* ---------------------------------------------------------------- specifications
\* Spec: concurrent Transformer invocations, each on its own source object,
\* under any pattern of storage failures.
Init == InitTransformer /\ InitExtractor("idle") /\ env = EnvSet

Next ==
    \/ \E i \in Invocations : \E data \in TriggerSnapshots : Land(i, data)
    \/ \E i \in Invocations : TransformOk(i)
    \/ \E i \in Invocations : TransformRaises(i)
    \/ \E i \in Invocations : UploadOk(i)
    \/ \E i \in Invocations : UploadRaises(i)
    \/ \E i \in Invocations : DownloadOk(i)
    \/ \E i \in Invocations : CopyOk(i)
    \/ \E i \in Invocations : DeleteOk(i)
    \/ \E i \in Invocations : MoveRaises(i)

Spec == Init /\ [][Next]_vars

\* SpecDamaged: concurrent Transformer invocations on snapshots with a missing
\* field or a value that is no date, under any pattern of storage failures.
NextDamaged ==
    \/ \E i \in Invocations : \E data \in DamagedSnapshots : Land(i, data)
    \/ \E i \in Invocations : TransformOk(i)
    \/ \E i \in Invocations : TransformRaises(i)
    \/ \E i \in Invocations : UploadOk(i)
    \/ \E i \in Invocations : UploadRaises(i)
    \/ \E i \in Invocations : DownloadOk(i)
    \/ \E i \in Invocations : CopyOk(i)
    \/ \E i \in Invocations : DeleteOk(i)
    \/ \E i \in Invocations : MoveRaises(i)

SpecDamaged == Init /\ [][NextDamaged]_vars

\* SpecConcurrent: concurrent Transformer invocations on source objects with
\* different well-formed contents, under any pattern of storage failures.
NextConcurrent ==
    \/ \E i \in Invocations : \E data \in ConcurrentSnapshots : Land(i, data)
    \/ \E i \in Invocations : TransformOk(i)
    \/ \E i \in Invocations : TransformRaises(i)
    \/ \E i \in Invocations : UploadOk(i)
    \/ \E i \in Invocations : UploadRaises(i)
    \/ \E i \in Invocations : DownloadOk(i)
    \/ \E i \in Invocations : CopyOk(i)
    \/ \E i \in Invocations : DeleteOk(i)
    \/ \E i \in Invocations : MoveRaises(i)

SpecConcurrent == Init /\ [][NextConcurrent]_vars

\* SpecExtract: concurrent Extractor invocations under every configuration.
InitExtract == InitTransformer /\ InitExtractor("config") /\ env \in Environments

NextExtract ==
    \/ \E e \in Requests : CheckConfig(e)
    \/ \E e \in Requests : ClientOk(e)
    \/ \E e \in Requests : ClientRaises(e)
    \/ \E e \in Requests : \E data \in PlaylistData : FetchOk(e, data)
    \/ \E e \in Requests : FetchRaises(e)
    \/ \E e \in Requests : PreparePath(e)
    \/ \E e \in Requests : UploadBlobOk(e)
    \/ \E e \in Requests : UploadBlobRaises(e)
    \/ \E e \in Requests : Respond(e)

SpecExtract == InitExtract /\ [][NextExtract]_vars

\* SpecRows: one Transformer invocation on every well-formed snapshot of up to
\* MaxItems items.
NextRows ==
    \/ pc[1] = "idle" /\ \E data \in WellFormedSnapshots : Land(1, data)
    \/ TransformOk(1)
    \/ UploadOk(1)
    \/ UploadRaises(1)

SpecRows == Init /\ [][NextRows]_vars

\* ---------------------------------------------------------------- properties
Started == {i \in Invocations : pc[i] # "idle"}
Snapshot(i) == JsonLoads(myblob[i].content)
CsvWritten(i) == hist[i].wrote \cap CsvKeys(timestamp[i])
Relocated(i) ==
    \/ target_path(i) \in hist[i].wrote
    \/ source_path(i) \in hist[i].deleted
    \/ Exists(target_path(i))
    \/ ~Exists(source_path(i))

\* C1: in every reachable state, an invocation that has written the copy of
\* its source under processed/, or deleted it from to_be_processed/, has
\* already uploaded all three of its CSVs (song, album, artist).
C1_CommitMarker ==
    \A i \in Started :
        Relocated(i) => /\ CsvKeys(timestamp[i]) \subseteq hist[i].wrote
                        /\ Cardinality(CsvWritten(i)) = 3

\* The copy under processed/ is written and the delete then fails.
C1_Witness ==
    \E i \in Started :
        /\ hist[i].raised = "delete"
        /\ Exists(target_path(i))
        /\ Exists(source_path(i))

\* C2: once all three CSVs are written, a failure of the download, of the
\* copy or of the delete ends the invocation as successful, and the source
\* object is still under to_be_processed/.
C2_MoveFailureIsSuccess ==
    \A i \in Started :
        hist[i].raised \in MoveSteps =>
            /\ pc[i] = "succeeded"
            /\ Cardinality(CsvWritten(i)) = 3
            /\ Exists(source_path(i))
            /\ container[source_path(i)] = myblob[i].content

C2_Witness ==
    /\ \E i \in Started : hist[i].raised = "download" /\ pc[i] = "succeeded"
    /\ \E i \in Started : hist[i].raised = "copy" /\ pc[i] = "succeeded"

\* C3: a failure of the first, second or third CSV upload ends the invocation
\* as failed, never as successful, with exactly the earlier uploads written
\* (0, 1 or 2 of the three) and nothing relocated.
UploadIndex(step) ==
    CASE step = "upload_song"   -> 1
      [] step = "upload_album"  -> 2
      [] step = "upload_artist" -> 3

C3_UploadFailureIsFailure ==
    \A i \in Started :
        hist[i].raised \in UploadSteps =>
            /\ pc[i] = "failed"
            /\ Cardinality(CsvWritten(i)) = UploadIndex(hist[i].raised) - 1
            /\ Cardinality(CsvWritten(i)) \in 0..2
            /\ hist[i].wrote = CsvWritten(i)
            /\ hist[i].deleted = {}

\* The third upload fails after the first two succeeded.
C3_Witness ==
    \E i \in Started :
        /\ hist[i].raised = "upload_artist"
        /\ pc[i] = "failed"
        /\ Cardinality(CsvWritten(i)) = 2

\* A snapshot the transformation cannot get through: a projection subscript
\* raises, or a value of a parsed date column (added_date of every song row,
\* release_date of every deduplicated album row) is no date.
Malformed(data) ==
    \/ ProjectionRaises(data)
    \/ LET songs == SongFrame(data)
           albums == AlbumFrame(data)
       IN  \/ \E k \in 1..Len(songs) : ~Parseable(songs[k].added_date)
           \/ \E k \in 1..Len(albums) : ~Parseable(albums[k].release_date)
MalformedStarted == {i \in Started : Malformed(Snapshot(i))}

\* A snapshot with a missing field, or with a date of any item that is no date.
HasBadField(data) ==
    \/ ProjectionRaises(data)
    \/ \E k \in 1..Len(data.items) :
           \/ ~Parseable(data.items[k].added_at)
           \/ ~Parseable(data.items[k].track.album.release_date)

WritesNothing(i) ==
    /\ pc[i] \in {"transform", "failed"}
    /\ hist[i].wrote = {}
    /\ hist[i].deleted = {}
    /\ ~Exists(target_path(i))
    /\ Exists(source_path(i))

\* C4 (as stated): an invocation on a snapshot in which an item lacks a field
\* or any date cannot be parsed fails as a whole and performs no storage
\* write: no CSV, no copy under processed/, no delete.
C4_BadFieldWritesNothing ==
    \A i \in Started :
        HasBadField(Snapshot(i)) =>
            /\ pc[i] # "succeeded"
            /\ hist[i].wrote = {}
            /\ hist[i].deleted = {}

\* C4 (amended): an invocation on a snapshot in which an item lacks a field,
\* or a date the Transformer parses (added_at of any item, release_date of the
\* first item of each album_id) is no date, fails as a whole and performs no
\* storage write; every invocation whose transformation raised has written
\* and deleted nothing; while only such snapshots have landed, the container
\* holds nothing but the sources under to_be_processed/.
C4_MalformedWritesNothing ==
    /\ \A i \in Started :
           (hist[i].raised = "transform" \/ i \in MalformedStarted) => WritesNothing(i)
    /\ MalformedStarted = Started =>
           \A p \in DOMAIN container : p[1] = "to_be_processed"

\* A missing album has failed one invocation and an unparseable date another.
C4_Witness ==
    /\ \E i \in Started :
           Snapshot(i) = SnapNoAlbum /\ pc[i] = "failed" /\ hist[i].raised = "transform"
    /\ \E i \in Started :
           Snapshot(i) = SnapBadDate /\ pc[i] = "failed" /\ hist[i].raised = "transform"

\* C7: concurrent invocations on different source objects do not collide on
\* writes: a CSV an invocation has uploaded stays in the container as that
\* invocation uploaded it, whatever the other invocations do.
C7_NoWriteCollision ==
    \A i \in Started :
        \A step \in UploadSteps :
            CsvKey(step, timestamp[i]) \in hist[i].wrote =>
                container[CsvKey(step, timestamp[i])] = CsvBody(step, i)

\* C10: the snapshot's bytes are under to_be_processed/ or under processed/ at
\* every point of the invocation; the source is deleted only once an identical
\* copy with the same file name is under processed/; a relocation without a
\* failure leaves the snapshot under processed/ and not under to_be_processed/.
C10_RelocationKeepsSnapshot ==
    \A i \in Started :
        /\ \/ Exists(source_path(i)) /\ container[source_path(i)] = myblob[i].content
           \/ Exists(target_path(i)) /\ container[target_path(i)] = myblob[i].content
        /\ (source_path(i) \in hist[i].deleted \/ ~Exists(source_path(i))) =>
               /\ Exists(target_path(i))
               /\ container[target_path(i)] = myblob[i].content
               /\ Last(target_path(i)) = SourceFileName(i)
        /\ (pc[i] = "succeeded" /\ hist[i].raised = "none") =>
               /\ Exists(target_path(i))
               /\ ~Exists(source_path(i))

\* A relocation without a failure has completed.
C10_Witness ==
    \E i \in Started :
        /\ pc[i] = "succeeded"
        /\ hist[i].raised = "none"
        /\ source_path(i) \in hist[i].deleted

\* ---- row-sets (SpecRows)
Computed == pc[1] \notin {"idle", "transform"}
Items == Snapshot(1).items
FirstArtist(k) == Items[k].track.artists[1]
AlbumOf(k) == Items[k].track.album
Min(S) == CHOOSE x \in S : \A y \in S : x <= y
FirstWithArtist(id) == Min({k \in 1..Len(Items) : FirstArtist(k).id = id})
FirstWithAlbum(id) == Min({k \in 1..Len(Items) : AlbumOf(k).id = id})

\* C8: the artist row-set holds no two rows with the same artist_id, one row
\* for every artist_id occurring as a first artist, for each id the row of the
\* first item carrying it, in first-seen order; likewise the album row-set by
\* album_id.
C8_DedupKeepsFirst ==
    Computed =>
        LET A == frames[1].artist_df
            B == frames[1].album_df
        IN  /\ \A j, k \in 1..Len(A) : j # k => A[j].artist_id # A[k].artist_id
            /\ {A[k].artist_id : k \in 1..Len(A)} = {FirstArtist(k).id : k \in 1..Len(Items)}
            /\ \A k \in 1..Len(A) : A[k].name = FirstArtist(FirstWithArtist(A[k].artist_id)).name
            /\ \A j, k \in 1..Len(A) :
                   j < k => FirstWithArtist(A[j].artist_id) < FirstWithArtist(A[k].artist_id)
            /\ \A j, k \in 1..Len(B) : j # k => B[j].album_id # B[k].album_id
            /\ {B[k].album_id : k \in 1..Len(B)} = {AlbumOf(k).id : k \in 1..Len(Items)}
            /\ \A k \in 1..Len(B) :
                   /\ B[k].name = AlbumOf(FirstWithAlbum(B[k].album_id)).name
                   /\ B[k].release_date = ParseDate(AlbumOf(FirstWithAlbum(B[k].album_id)).release_date)
            /\ \A j, k \in 1..Len(B) :
                   j < k => FirstWithAlbum(B[j].album_id) < FirstWithAlbum(B[k].album_id)
            /\ Len(frames[1].song_df) = Len(Items)

\* Three items, two sharing an album with different payloads and two sharing
\* a first artist with different payloads: two album rows, two artist rows.
C8_Witness ==
    /\ Computed
    /\ Len(Items) = 3
    /\ Len(frames[1].artist_df) = 2
    /\ Len(frames[1].album_df) = 2
    /\ \E j, k \in 1..3 : j < k /\ AlbumOf(j).id = AlbumOf(k).id /\ AlbumOf(j).name # AlbumOf(k).name
    /\ \E j, k \in 1..3 : j < k /\ FirstArtist(j).id = FirstArtist(k).id
                                /\ FirstArtist(j).name # FirstArtist(k).name

\* The cells of one column of a CSV text, found by its header.
CsvColumn(csv, name) ==
    LET c == CHOOSE c \in 1..Len(csv[1]) : csv[1][c] = name
    IN  {csv[k][c] : k \in 2..Len(csv)}

\* C9: in the three CSVs one invocation has uploaded, every song row's
\* album_id is the album_id of a row of the album CSV and every song row's
\* artist_id is the artist_id of a row of the artist CSV.
C9_ReferentialIntegrity ==
    Cardinality(CsvWritten(1)) = 3 =>
        LET song == container[song_key(timestamp[1])]
            album == container[album_key(timestamp[1])]
            artist == container[artist_key(timestamp[1])]
        IN  /\ CsvColumn(song, "album_id") \subseteq CsvColumn(album, "album_id")
            /\ CsvColumn(song, "artist_id") \subseteq CsvColumn(artist, "artist_id")
            /\ Len(song) = Len(Items) + 1

\* A batch whose album and artist CSVs are shorter than its song CSV.
C9_Witness ==
    /\ Cardinality(CsvWritten(1)) = 3
    /\ Len(container[song_key(timestamp[1])]) = 4
    /\ Len(container[album_key(timestamp[1])]) = 3
    /\ Len(container[artist_key(timestamp[1])]) = 2

\* ---- Extractor (SpecExtract)
ConfigMissing ==
    \/ Falsy(env.CLIENT_ID)
    \/ Falsy(env.SECRET_ID)
    \/ Falsy(env.STORAGE_CONNECTION_STRING)

\* C5: with the client id, the client secret or the storage connection string
\* missing, an invocation returns 500 with the message naming the missing
\* configuration, and makes no call to the remote API and no storage write.
C5_ConfigErrorNoCalls ==
    ConfigMissing =>
        /\ container = <<>>
        /\ \A e \in Requests :
              /\ epc[e] \in {"config", "returned"}
              /\ ehist[e].api_calls = 0
              /\ ehist[e].storage_calls = 0
              /\ ehist[e].wrote = {}
              /\ epc[e] = "returned" =>
                    /\ response[e].status_code = HttpError
                    /\ response[e].body =
                          IF Falsy(env.CLIENT_ID) \/ Falsy(env.SECRET_ID)
                          THEN CredentialsBody ELSE StorageBody

\* Credentials present, storage connection string missing, response returned.
C5_Witness ==
    /\ ~Falsy(env.CLIENT_ID)
    /\ ~Falsy(env.SECRET_ID)
    /\ Falsy(env.STORAGE_CONNECTION_STRING)
    /\ \E e \in Requests : epc[e] = "returned" /\ response[e].body = StorageBody

StageOrder == <<"config", "client", "fetch", "upload">>
FailedStage(body) ==
    CASE body \in {CredentialsBody, StorageBody} -> "config"
      [] body = ConnectBody  -> "client"
      [] body = RetrieveBody -> "fetch"
      [] body = UploadBody   -> "upload"

spotify_http_trigger(e) ==
    \/ CheckConfig(e)
    \/ ClientOk(e)
    \/ ClientRaises(e)
    \/ \E data \in PlaylistData : FetchOk(e, data)
    \/ FetchRaises(e)
    \/ PreparePath(e)
    \/ UploadBlobOk(e)
    \/ UploadBlobRaises(e)
    \/ Respond(e)

\* C6: an invocation that has not returned can always take a step; a returned
\* one carries status 200 or 500; the status is 200 exactly when the
\* invocation wrote its snapshot under to_be_processed/; a 500 ends the
\* invocation at the stage that failed; no stage is attempted twice.
C6_AlwaysAResponse ==
    \A e \in Requests :
        /\ epc[e] # "returned" => ENABLED spotify_http_trigger(e)
        /\ epc[e] = "returned" =>
              /\ response[e].status_code \in {HttpOk, HttpError}
              /\ response[e].status_code = HttpOk <=> ehist[e].wrote # {}
        /\ \A p \in ehist[e].wrote : p[1] = "to_be_processed" /\ Exists(p)
        /\ response[e].status_code = HttpError =>
              /\ epc[e] = "returned"
              /\ Last(ehist[e].stages) = FailedStage(response[e].body)
        /\ ehist[e].stages = SubSeq(StageOrder, 1, Len(ehist[e].stages))
        /\ ehist[e].api_calls <= 1
        /\ ehist[e].storage_calls <= 1

\* One invocation returned 200 and another returned 500 from the storage write.
C6_Witness ==
    /\ \E e \in Requests : epc[e] = "returned" /\ response[e].status_code = HttpOk
    /\ \E e \in Requests : epc[e] = "returned" /\ response[e].body = UploadBody

====
